---- MODULE Spec2Model ----
(***************************************************************************)
(* Model of the batch retrieval engine of Projeto_PF:                      *)
(*   src/services/processService.js  fetchProcessData, fetchBatchProcesses *)
(*   src/index.js                    GET /api/process/batch                *)
(*                                                                         *)
(* Scheduling.  The program runs on the JavaScript event loop.  A fetch    *)
(* settles only from an I/O event (axios resolves or rejects from a socket *)
(* event or from the abort event of the signal), and an external abort     *)
(* arrives as an I/O event too.  Between two I/O events every continuation *)
(* that became runnable runs to completion (microtasks).  The controller   *)
(* position pc therefore has two kinds of values: "for" and "while" are    *)
(* positions inside a microtask burst, where no fetch can settle and no    *)
(* abort can arrive; "race", "drain", "returned" and "thrown" are          *)
(* positions where the controller is suspended or finished and the next    *)
(* I/O event is taken.  The one exception: abort() rejects every pending    *)
(* axios request synchronously, so once the signal is aborted the in-flight *)
(* fetches settle within the burst, interleaved with the controller.        *)
(*                                                                         *)
(* The results array is modelled as a bag keyed by sequence number (how    *)
(* many records of each identifier it holds); the order of the pushes is   *)
(* not modelled.  The progress callback is modelled as supplied.           *)
(***************************************************************************)
EXTENDS Integers, Sequences, FiniteSets, TLC

\* ---------------------------------------------------------------- bounds
MaxStart == 2      \* start is drawn from 1..MaxStart
MaxEnd == 4        \* end is drawn from start..MaxEnd
SmallLimit == 2    \* scaled-down window used to reach full-window states
MaxSpan == 2       \* SpecIds: end is drawn from start..start + MaxSpan
MaxIdLen == 13     \* SpecFetch: longest identifier given without separators
MaxRows == 2       \* SpecFetch: most rows of a results table
MaxLiveEnd == 4    \* SpecLive: end is drawn from 1..MaxLiveEnd
MaxReqs == 2       \* SpecReg: batch requests the server receives
MaxIds == 2        \* SpecReg: distinct values reqId can take

\* ------------------------------------------------------ program constants
CONCURRENCY == 20
MAX_CONSECUTIVE_CONN_ERRORS == 3

VARIABLES
  prefix, year,            \* prefix and year arguments (sequences of characters)
  start, end,              \* requested range
  limit,                   \* window size used by the run
  hasController,           \* controller argument is not null
  origin,                  \* what the origin may answer for each identifier
  i,                       \* loop variable of the for loop
  pc,                      \* position of fetchBatchProcesses
  active,                  \* Set of in-flight fetch promises (by sequence)
  admitted,                \* sequence numbers fetchProcessData was called for
  launched,                \* the identifiers (numero) passed to fetchProcessData
  doneCount,
  consecutiveConnErrors,
  results,                 \* bag: sequence number -> records pushed
  aborted,                 \* controller.signal.aborted
  sink,                    \* calls of onProgress: <<done, total, warn>>
  ret,                     \* outcome each settled fetch had ("none" before)
  ignored,                 \* fetches that left at the aborted check
  rejected,                \* fetch promises rejected with PREFEITURA_OFFLINE
  unhandled,               \* rejected promises that no handler observes
  cancelRequested,         \* abort() was called from outside the run
  doneEvent,               \* the 'done' event of the batch endpoint
  call,                    \* a single call of fetchProcessData under study
  out,                     \* what that call gave back
  query,                   \* req.query of a request to the batch endpoint
  status,                  \* how the endpoint answered it: "400" or "stream"
  batches,                 \* the batch requests the server has seen
  activeControllers        \* the registry: reqId -> the request whose controller it holds

vars == <<prefix, year, start, end, limit, hasController, origin, i, pc,
          active, admitted, launched, doneCount, consecutiveConnErrors, results, aborted, sink, ret,
          ignored, rejected, unhandled, cancelRequested, doneEvent, call, out,
          query, status, batches, activeControllers>>

fetchVars == <<call, out>>
regVars == <<batches, activeControllers>>
reqVars == <<query, status, regVars>>

params == <<prefix, year, start, end, limit, hasController, origin>>

\* ------------------------------------------------------- fetch outcomes
Success(n) == [kind |-> "Success", n |-> n]
EmptyResult == [kind |-> "EmptyResult", n |-> 0]
Unexpected == [kind |-> "Unexpected", n |-> 0]
ConnectionError == [kind |-> "ConnectionError", n |-> 0]
Cancelled == [kind |-> "Cancelled", n |-> 0]

\* Rows the origin's movement table holds for sequence number j (the origin
\* is an external collaborator: some processes have one movement, some two).
RowsOf(j) == 1 + (j % 2)

OriginOutcomes(j) ==
  {Success(RowsOf(j)), EmptyResult, Unexpected, ConnectionError}

AllOutcomes ==
  {Success(1), Success(2), EmptyResult, Unexpected, ConnectionError, Cancelled}

NoOutcome == [kind |-> "none", n |-> 0]

\* What fetchProcessData hands back for each outcome: an array of records,
\* null, or the { __error: "CONNECTION_ERROR" } marker.
fetchProcessData(o) ==
  CASE o.kind = "Success" -> [tag |-> "array", len |-> o.n]
    [] o.kind = "ConnectionError" -> [tag |-> "error", len |-> 0]
    [] OTHER -> [tag |-> "null", len |-> 0]

\* ------------------------------------------------- fetchBatchProcesses
\* Strings are sequences of one-character strings.
Digit(d) == <<"0", "1", "2", "3", "4", "5", "6", "7", "8", "9">>[d + 1]

\* i.toString() for an integer
RECURSIVE NatToString(_)
NatToString(n) ==
  IF n < 10 THEN <<Digit(n)>> ELSE NatToString(n \div 10) \o <<Digit(n % 10)>>

IntToString(n) == IF n < 0 THEN <<"-">> \o NatToString(0 - n) ELSE NatToString(n)

\* String.prototype.padStart(n, c)
RECURSIVE PadStart(_, _, _)
PadEnd(s, n, c) == IF Len(s) >= n THEN s ELSE s \o [k \in 1..(n - Len(s)) |-> c]
PadStart(s, n, c) == IF Len(s) >= n THEN s ELSE PadStart(<<c>> \o s, n, c)

\* `${prefix.padStart(3, "0")}/${i.toString().padStart(6, "0")}/${year}`
Numero(pre, k, yr) ==
  PadStart(pre, 3, "0") \o <<"/">> \o PadStart(IntToString(k), 6, "0")
    \o <<"/">> \o yr

\* ---------------------------------------------------- activeControllers
Reqs == 1..MaxReqs
Ids == 1..MaxIds

\* a request before it arrives
NoBatch == [phase |-> "idle", id |-> 0, aborted |-> FALSE, closed |-> FALSE]

EmptyMap == [k \in {} |-> 0]

\* Map.prototype.set and Map.prototype.delete
MapSet(map, k, v) == [x \in DOMAIN map \cup {k} |-> IF x = k THEN v ELSE map[x]]
MapDelete(map, k) == [x \in DOMAIN map \ {k} |-> map[x]]

\* finally { activeControllers.delete(reqId) }
FinallyDeleteMissing(map, k) == map    \* fault variant: no finally block
FinallyDelete(map, k) == MapDelete(map, k)

RegistryIdle ==
  /\ batches = [r \in Reqs |-> NoBatch]
  /\ activeControllers = EmptyMap

\* ------------------------------------------------------ fetchProcessData
NoCall == [fn |-> "none"]

Min(a, b) == IF a < b THEN a ELSE b

\* String.prototype.substring(a, b) and substring(a), for 0 <= a <= b
Substring(s, a, b) == SubSeq(s, Min(a, Len(s)) + 1, Min(b, Len(s)))
SubstringFrom(s, a) == SubSeq(s, Min(a, Len(s)) + 1, Len(s))

Includes(s, c) == \E k \in 1..Len(s) : s[k] = c

\* lines 27-30: an identifier without "/" is cut at the offsets 3 and 9
Canon(numero) ==
  IF Includes(numero, "/") THEN numero
  ELSE Substring(numero, 0, 3) \o <<"/">> \o Substring(numero, 3, 9)
         \o <<"/">> \o SubstringFrom(numero, 9)

\* Error messages are sequences of words; includes() looks for a run of words.
Lower(w) ==
  CASE w = "ECONNREFUSED" -> "econnrefused"
    [] w = "ETIMEDOUT" -> "etimedout"
    [] w = "ENOTFOUND" -> "enotfound"
    [] w = "Request" -> "request"
    [] w = "Socket" -> "socket"
    [] w = "Cannot" -> "cannot"
    [] OTHER -> w

ToLowerCase(msg) == [k \in 1..Len(msg) |-> Lower(msg[k])]

MsgIncludes(msg, pat) ==
  \E k \in 1..Len(msg) :
    k + Len(pat) - 1 <= Len(msg) /\ SubSeq(msg, k, k + Len(pat) - 1) = pat

\* axios.isCancel(err) || err.name === "CanceledError" || err.name === "AbortError"
IsCancel(err) == err.isCancel \/ err.name = "CanceledError" \/ err.name = "AbortError"

IsTimeout(err) ==
  \/ err.code = "ECONNABORTED"
  \/ MsgIncludes(ToLowerCase(err.msg), <<"timeout">>)
  \/ MsgIncludes(ToLowerCase(err.msg), <<"timed", "out">>)

IsConnectionNoDns(err) ==    \* fault variant: host-not-found forgotten
  \/ err.code = "ECONNREFUSED"
  \/ err.code = "ETIMEDOUT"
  \/ MsgIncludes(ToLowerCase(err.msg), <<"connect", "econnrefused">>)
IsConnection(err) ==
  \/ err.code = "ECONNREFUSED"
  \/ err.code = "ETIMEDOUT"
  \/ err.code = "ENOTFOUND"
  \/ MsgIncludes(ToLowerCase(err.msg), <<"connect", "econnrefused">>)

Null == [tag |-> "null"]
Marker(numero) == [tag |-> "error", numero |-> numero]
Records(recs) == [tag |-> "array", recs |-> recs]

Returned(v, b) == [thrown |-> FALSE, value |-> v, branch |-> b]
Thrown(err) == [thrown |-> TRUE, value |-> Null, branch |-> "rethrown"]

\* lines 96-123, the catch block: the value returned for a caught error and
\* the branch (log line) that was taken
CatchRethrows(err, numero) ==    \* fault variant: other errors are rethrown
  IF IsCancel(err) THEN Returned(Null, "cancelled")
  ELSE IF IsTimeout(err) \/ IsConnection(err)
    THEN Returned(Marker(numero), "connection")
  ELSE Thrown(err)
Catch(err, numero) ==
  IF IsCancel(err) THEN Returned(Null, "cancelled")
  ELSE IF IsTimeout(err) \/ IsConnection(err)
    THEN Returned(Marker(numero), "connection")
  ELSE Returned(Null, "error")

\* formatarMovimento: the six movement fields are the cells 1..6 (counted
\* from 0) of the row, or "" where the row has no such cell
formatarMovimento(infoBase, cols) ==
  [header |-> infoBase,
   mov |-> [k \in 1..6 |-> IF k + 1 <= Len(cols) THEN cols[k + 1] ELSE <<>>]]

\* rows.last()
PickedRowFirst(rows) == rows[1]    \* fault variant: rows.first()
PickedRow(rows) == rows[Len(rows)]

\* lines 59-95: the value for a parsed response
ParseTable(numero, firstOnly, resp) ==
  IF ~resp.table THEN Returned(Null, "no-table")
  ELSE IF Len(resp.rows) = 0
    THEN Returned(Records(<<[header |-> numero, mov |-> <<>>]>>), "ok")
  ELSE IF firstOnly
    THEN Returned(Records(<<formatarMovimento(numero, PickedRow(resp.rows))>>), "ok")
  ELSE Returned(Records([r \in 1..Len(resp.rows) |->
                           formatarMovimento(numero, resp.rows[r])]), "ok")

\* lines 25-124: the whole call.  Each network step either answers or
\* raises an error; a body that is no document raises while it is parsed.
FetchCall(c) ==
  LET numero == Canon(c.numero)
  IN [fn |-> "fetch",
      numero |-> numero,
      res |-> IF c.session.kind = "error" THEN Catch(c.session.err, numero)
              ELSE IF c.query.kind = "error" THEN Catch(c.query.err, numero)
              ELSE IF c.query.kind = "garbage" THEN Catch(c.query.err, numero)
              ELSE ParseTable(numero, c.firstOnly, c.query.resp)]

\* --------------------------------------- req.query of /api/process/batch
NoQuery == [none |-> TRUE]

\* a query parameter: missing (undefined) or given with a text
Absent == [present |-> FALSE, text |-> <<>>]
Given(t) == [present |-> TRUE, text |-> t]

\* !prefix: undefined and "" are both falsy
Falsy(p) == ~p.present \/ p.text = <<>>

IsDigits(s) == \A k \in 1..Len(s) : \E d \in 0..9 : s[k] = Digit(d)

DigitValue(c) == CHOOSE d \in 0..9 : Digit(d) = c

RECURSIVE StringToNat(_)
StringToNat(s) ==
  IF s = <<>> THEN 0
  ELSE 10 * StringToNat(SubSeq(s, 1, Len(s) - 1)) + DigitValue(s[Len(s)])

\* Number(x) for undefined, "", decimal digits with an optional minus sign,
\* and any other text (NaN)
NaN == [nan |-> TRUE, val |-> 0]
Num(v) == [nan |-> FALSE, val |-> v]

Number(p) ==
  IF ~p.present THEN NaN
  ELSE IF p.text = <<>> THEN Num(0)
  ELSE IF IsDigits(p.text) THEN Num(StringToNat(p.text))
  ELSE IF p.text[1] = "-" /\ Len(p.text) > 1 /\ IsDigits(Tail(p.text))
    THEN Num(0 - StringToNat(Tail(p.text)))
  ELSE NaN

\* Number(x) || dflt: NaN and 0 are falsy
NumberOr(p, dflt) ==
  LET n == Number(p) IN IF n.nan \/ n.val = 0 THEN dflt ELSE n.val

DefaultStart == 1
DefaultEnd == 1000

totalSpan == end - start    \* fault variant: end not counted
total == end - start + 1

\* the condition of the for loop, inclusive on both ends
LoopCondExclusive(k) == k < end    \* fault variant: end excluded
LoopCond(k) == k <= end

\* signal?.aborted, with signal = controller?.signal || null
SignalAbortedOff == FALSE    \* fault variant: the signal is never consulted
SignalAborted == hasController /\ aborted

\* the condition of the while loop
WindowFullStrict(a) == Cardinality(a) > limit    \* fault variant: > for >=
WindowFullAny(a) == Cardinality(a) > 0    \* fault variant: waits for every fetch
WindowFull(a) == Cardinality(a) >= limit

\* data && data.__error === "CONNECTION_ERROR"
IsConnError(data) == data.tag = "error"

\* consecutiveConnErrors >= MAX_CONSECUTIVE_CONN_ERRORS
CircuitTrips(c) == c >= MAX_CONSECUTIVE_CONN_ERRORS

\* "if (signal?.aborted) return" after the fetch has settled
SettleIgnoredNever == FALSE    \* fault variant: the check is missing
SettleIgnored == SignalAborted

\* onProgress is invoked for a settled fetch that was not ignored
ReportsOkOnly(data) == ~IsConnError(data)    \* fault variant: errors unreported
Reports(data) == TRUE

\* consecutiveConnErrors after a settled fetch that was not ignored
\* (NextCounterSticky, PushedTwice: fault variants of the two definitions)
NextCounterSticky(data, c) ==
  IF IsConnError(data) THEN c + 1 ELSE IF data.tag = "array" THEN 0 ELSE c
NextCounter(data, c) == IF IsConnError(data) THEN c + 1 ELSE 0

\* records that "if (data && data.length > 0) results.push(...data)" appends
PushedTwice(data) == IF data.tag = "array" /\ data.len > 0 THEN 2 * data.len ELSE 0
Pushed(data) == IF data.tag = "array" /\ data.len > 0 THEN data.len ELSE 0

\* Where the suspended controller goes when a fetch promise settles.
\* controller?.abort() before the throw: aborts when there is a controller
AbortsOnOutageNever == FALSE    \* fault variant: the outage aborts nothing
AbortsOnOutage == hasController

\* The promises that reject when the fetch promise p of j throws: p itself
\* and the promise that p.finally(...) returns.  p is observed, p.finally
\* having put a reaction on it; what p.finally returns is dropped.
FetchPromiseObserved == TRUE
CleanupPromiseObserved == FALSE

Unobserved(j) ==
  (IF FetchPromiseObserved THEN {} ELSE {[promise |-> "p", id |-> j]})
    \cup (IF CleanupPromiseObserved THEN {}
          ELSE {[promise |-> "p.finally", id |-> j]})

AfterSettleNoReturn(p, rejects, rest) ==    \* fault variant: the drain never ends
  CASE p = "race" -> IF rejects THEN "thrown" ELSE "while"
    [] p = "drain" -> "drain"
    [] OTHER -> p
AfterSettleFirst(p, rejects, rest) ==    \* fault variant: drain ends at the first settle
  CASE p = "race" -> IF rejects THEN "thrown" ELSE "while"
    [] p = "drain" -> "returned"
    [] OTHER -> p
AfterSettle(p, rejects, rest) ==
  CASE p = "race" -> IF rejects THEN "thrown" ELSE "while"
    [] p = "drain" -> IF rest = {} THEN "returned" ELSE "drain"
    [] OTHER -> p

InitRun ==
  /\ i = start
  /\ pc = "for"
  /\ active = {}
  /\ admitted = <<>>
  /\ launched = <<>>
  /\ doneCount = 0
  /\ consecutiveConnErrors = 0
  /\ results = [id \in start..end |-> 0]
  /\ aborted = FALSE
  /\ sink = <<>>
  /\ ret = [id \in start..end |-> NoOutcome]
  /\ ignored = {}
  /\ rejected = {}
  /\ unhandled = {}
  /\ cancelRequested = FALSE
  /\ doneEvent = "none"
  /\ call = NoCall
  /\ out = NoCall
  /\ query = NoQuery
  /\ status = "none"
  /\ RegistryIdle

\* any range within the bounds, with the window of the source or the
\* scaled-down one, with or without a controller
InitAny ==
  /\ prefix = <<"0", "1", "8">>
  /\ year = <<"2", "0", "2", "5">>
  /\ start \in 1..MaxStart
  /\ end \in start..MaxEnd
  /\ limit \in {SmallLimit, CONCURRENCY}
  /\ hasController \in BOOLEAN
  /\ origin = [id \in start..end |-> OriginOutcomes(id)]
  /\ InitRun

\* the batch endpoint's call for range [1, 5] where every identifier
\* succeeds with one record
InitFive ==
  /\ prefix = <<"0", "1", "8">>
  /\ year = <<"2", "0", "2", "5">>
  /\ start = 1
  /\ end = 5
  /\ limit = CONCURRENCY
  /\ hasController = TRUE
  /\ origin = [id \in 1..5 |-> {Success(1)}]
  /\ InitRun

\* the batch endpoint's call for range [1, 10] where identifiers 3, 4 and 5
\* answer with a connection error and the others with one record
InitTen ==
  /\ prefix = <<"0", "1", "8">>
  /\ year = <<"2", "0", "2", "5">>
  /\ start = 1
  /\ end = 10
  /\ limit = CONCURRENCY
  /\ hasController = TRUE
  /\ origin = [id \in 1..10 |->
                 IF id \in 3..5 THEN {ConnectionError} ELSE {Success(1)}]
  /\ InitRun

Init == InitAny \/ InitFive

\* calls with prefixes that need padding (or are longer than three
\* characters) and sequence numbers of one, two and three digits
Prefixes ==
  {<<"1">>, <<"1", "8">>, <<"0", "1", "8">>, <<"1", "2", "3", "4">>}

InitIds ==
  /\ prefix \in Prefixes
  /\ year = <<"2", "0", "2", "5">>
  /\ start \in {1, 9, 123}
  /\ end \in start..(start + MaxSpan)
  /\ limit \in {SmallLimit, CONCURRENCY}
  /\ hasController \in BOOLEAN
  /\ origin = [id \in start..end |-> {Success(RowsOf(id)), ConnectionError}]
  /\ InitRun

\* ---------------------------------------------- calls of fetchProcessData
\* the state of a process in which no batch is running
ControllerIdle ==
  /\ prefix = <<>>
  /\ year = <<>>
  /\ start = 1
  /\ end = 0
  /\ limit = CONCURRENCY
  /\ hasController = FALSE
  /\ origin = [id \in {} |-> {}]
  /\ i = 1
  /\ pc = "idle"
  /\ active = {}
  /\ admitted = <<>>
  /\ launched = <<>>
  /\ doneCount = 0
  /\ consecutiveConnErrors = 0
  /\ results = [id \in {} |-> 0]
  /\ aborted = FALSE
  /\ sink = <<>>
  /\ ret = [id \in {} |-> NoOutcome]
  /\ ignored = {}
  /\ rejected = {}
  /\ unhandled = {}
  /\ cancelRequested = FALSE
  /\ doneEvent = "none"

\* identifiers: the digits of a process number cut at every length, with
\* and without one "/" put in at every position
Base ==
  <<"0", "1", "8", "0", "0", "0", "1", "2", "3", "2", "0", "2", "5", "7", "7">>

InsertAt(s, p, c) == SubSeq(s, 1, p) \o <<c>> \o SubSeq(s, p + 1, Len(s))

NumeroInputs ==
  {SubSeq(Base, 1, n) : n \in 1..MaxIdLen}
    \cup UNION {{InsertAt(SubSeq(Base, 1, n), p, "/") : p \in 0..n} : n \in 1..MaxIdLen}
    \cup {<<"0", "1", "8", "/", "0", "0", "0", "1", "2", "3", "/", "2", "0", "2", "5">>}

\* errors as axios and Node raise them; cause is why the request failed
\* and is not visible to the code
Err(cause, isCancel, name, code, msg) ==
  [cause |-> cause, isCancel |-> isCancel, name |-> name, code |-> code, msg |-> msg]

TypeErr ==
  Err("bug", FALSE, "TypeError", "", <<"Cannot", "read", "properties", "of", "undefined">>)

Errors(ms) ==
  {Err("signal", TRUE, "CanceledError", "ERR_CANCELED", <<"canceled">>),
   Err("timeout", FALSE, "AxiosError", "ECONNABORTED", <<"timeout", "of", ms, "exceeded">>),
   Err("timeout", FALSE, "AxiosError", "ETIMEDOUT", <<"timeout", "of", ms, "exceeded">>),
   Err("timeout", FALSE, "Error", "ETIMEDOUT", <<"connect", "ETIMEDOUT", "host:8004">>),
   Err("timeout", FALSE, "Error", "", <<"Socket", "timed", "out">>),
   Err("refused", FALSE, "Error", "ECONNREFUSED", <<"connect", "ECONNREFUSED", "host:8004">>),
   Err("refused", FALSE, "AggregateError", "ECONNREFUSED", <<>>),
   Err("refused", FALSE, "Error", "", <<"connect", "ECONNREFUSED", "host:8004">>),
   Err("notfound", FALSE, "Error", "ENOTFOUND", <<"getaddrinfo", "ENOTFOUND", "host">>),
   Err("reset", FALSE, "Error", "ECONNRESET", <<"socket", "hang", "up">>),
   Err("http", FALSE, "AxiosError", "ERR_BAD_RESPONSE",
       <<"Request", "failed", "with", "status", "code", "500">>),
   TypeErr}

\* the text of cell k (counted from 0) of row r, and a row of n cells
Cell(r, k) == <<"r", Digit(r), "c", Digit(k)>>
RowCells(r, n) == [k \in 1..n |-> Cell(r, k - 1)]

ColCounts == {0, 3, 7}

RECURSIVE SeqsUpTo(_, _)
SeqsUpTo(S, n) ==
  IF n = 0 THEN {<<>>}
  ELSE LET shorter == SeqsUpTo(S, n - 1)
       IN shorter \cup {Append(q, x) : q \in shorter, x \in S}

Tables ==
  {[r \in 1..Len(widths) |-> RowCells(r, widths[r])] : widths \in SeqsUpTo(ColCounts, MaxRows)}

Sessions == {[kind |-> "ok"]} \cup {[kind |-> "error", err |-> e] : e \in Errors("15000ms")}

Queries ==
  {[kind |-> "error", err |-> e] : e \in Errors("25000ms")}
    \cup {[kind |-> "garbage", err |-> TypeErr]}
    \cup {[kind |-> "html", resp |-> [table |-> FALSE, rows |-> <<>>]]}
    \cup {[kind |-> "html", resp |-> [table |-> TRUE, rows |-> t]] : t \in Tables}

Calls ==
  [fn : {"fetch"}, numero : NumeroInputs, firstOnly : BOOLEAN,
   session : Sessions, query : Queries]

InitFetch ==
  /\ ControllerIdle
  /\ call \in Calls
  /\ out = NoCall
  /\ query = NoQuery
  /\ status = "none"
  /\ RegistryIdle

\* one call of fetchProcessData, from entry to the value it resolves with
Fetch ==
  /\ call.fn = "fetch"
  /\ out = NoCall
  /\ out' = FetchCall(call)
  /\ UNCHANGED <<params, reqVars, call, i, pc, active, admitted, launched, doneCount,
                 consecutiveConnErrors, results, aborted, sink, ret, ignored,
                 rejected, unhandled, cancelRequested, doneEvent>>

NextFetch == Fetch

SpecFetch == InitFetch /\ [][NextFetch]_vars

\* ------------------------------------------ requests to the batch endpoint
Txt018 == <<"0", "1", "8">>
Txt2025 == <<"2", "0", "2", "5">>

\* requests with and without prefix and year, with well-formed and
\* malformed ones, and with sequence bounds that are missing, reversed,
\* negative or no number; end is always a small number, so that the
\* default of 1000 identifiers is not run
Requests ==
  [prefix : {Absent, Given(Txt018), Given(<<"a", "b">>)},
   year : {Absent, Given(Txt2025), Given(<<"2", "0", "x", "5">>)},
   start : {Absent, Given(<<"1">>), Given(<<"3">>), Given(<<"-", "2">>),
            Given(<<"a", "b", "c">>)},
   end : {Given(<<"1">>), Given(<<"2">>)}]

InitReq ==
  /\ ControllerIdle
  /\ call = NoCall
  /\ out = NoCall
  /\ query \in Requests
  /\ status = "none"
  /\ RegistryIdle

\* app.get("/api/process/batch"): the handler up to the call of
\* fetchBatchProcesses, whose first steps (lines 154-164) run in the same turn
Receive ==
  /\ pc = "idle"
  /\ status = "none"
  /\ query # NoQuery
  /\ IF Falsy(query.prefix) \/ Falsy(query.year)
       THEN /\ status' = "400"
            /\ UNCHANGED <<params, i, pc, results, ret>>
       ELSE LET s0 == NumberOr(query.start, DefaultStart)
                e0 == NumberOr(query.end, DefaultEnd)
            IN /\ status' = "stream"
               /\ prefix' = query.prefix.text
               /\ year' = query.year.text
               /\ start' = s0
               /\ end' = e0
               /\ limit' = CONCURRENCY
               /\ hasController' = TRUE
               /\ origin' = [id \in s0..e0 |-> {Success(1), ConnectionError}]
               /\ i' = s0
               /\ pc' = "for"
               /\ results' = [id \in s0..e0 |-> 0]
               /\ ret' = [id \in s0..e0 |-> NoOutcome]
  /\ UNCHANGED <<fetchVars, regVars, query, active, admitted, launched, doneCount,
                 consecutiveConnErrors, aborted, sink, ignored, rejected, unhandled,
                 cancelRequested, doneEvent>>

\* ----------------------------------- several requests and the registry
InitReg ==
  /\ ControllerIdle
  /\ call = NoCall
  /\ out = NoCall
  /\ query = NoQuery
  /\ status = "none"
  /\ RegistryIdle

regFrame ==
  <<params, fetchVars, query, status, i, pc, active, admitted, launched,
    doneCount, consecutiveConnErrors, results, aborted, sink, ret, ignored,
    rejected, unhandled, cancelRequested, doneEvent>>

\* GET /api/process/batch arrives: the 400 answer, or reqId is made, the
\* controller is created and registered, and fetchBatchProcesses is called.
\* reqId is a time stamp and six random characters: two requests can get
\* the same one.
Start(r) ==
  /\ batches[r].phase = "idle"
  /\ \E valid \in BOOLEAN, id \in Ids :
       IF ~valid
         THEN /\ batches' = [batches EXCEPT ![r].phase = "rejected"]
              /\ UNCHANGED activeControllers
         ELSE /\ batches' = [batches EXCEPT ![r].phase = "running", ![r].id = id]
              /\ activeControllers' = MapSet(activeControllers, id, r)
  /\ UNCHANGED regFrame

\* req.on("close"): the client went away, or the response has ended
Close(r) ==
  /\ batches[r].phase \in {"running", "ended"}
  /\ ~batches[r].closed
  /\ batches' = [batches EXCEPT ![r].aborted = TRUE, ![r].closed = TRUE]
  /\ activeControllers' = MapDelete(activeControllers, batches[r].id)
  /\ UNCHANGED regFrame

\* fetchBatchProcesses has returned or thrown: the done event, res.end(),
\* and the finally block
End(r) ==
  /\ batches[r].phase = "running"
  /\ batches' = [batches EXCEPT ![r].phase = "ended"]
  /\ activeControllers' = FinallyDelete(activeControllers, batches[r].id)
  /\ UNCHANGED regFrame

\* POST /api/cancel: abort and delete every entry
CancelAll ==
  /\ batches' = [r \in Reqs |->
                   IF \E k \in DOMAIN activeControllers : activeControllers[k] = r
                     THEN [batches[r] EXCEPT !.aborted = TRUE]
                     ELSE batches[r]]
  /\ activeControllers' = EmptyMap
  /\ UNCHANGED regFrame

NextReg ==
  \/ \E r \in Reqs : Start(r)
  \/ \E r \in Reqs : Close(r)
  \/ \E r \in Reqs : End(r)
  \/ CancelAll

SpecReg == InitReg /\ [][NextReg]_vars

\* for (let i = start; i <= end; i++) { if (signal?.aborted) break; await launch(i);
ForStep ==
  /\ pc = "for"
  /\ LoopCond(i)
  /\ ~SignalAborted
  /\ IF SignalAborted    \* launch: if (signal?.aborted) return
       THEN UNCHANGED <<active, admitted, launched>>
       ELSE /\ active' = active \cup {i}
            /\ admitted' = Append(admitted, i)
            /\ launched' = Append(launched, Numero(prefix, i, year))
  /\ pc' = "while"
  /\ UNCHANGED <<params, fetchVars, reqVars, i, doneCount, consecutiveConnErrors, results, aborted,
                 sink, ret, ignored, rejected, unhandled, cancelRequested, doneEvent>>

\* leaving the for loop: await Promise.allSettled(Array.from(active)); return results
ForExit ==
  /\ pc = "for"
  /\ (~LoopCond(i) \/ SignalAborted)
  /\ pc' = IF active = {} THEN "returned" ELSE "drain"
  /\ UNCHANGED <<params, fetchVars, reqVars, i, active, admitted, launched, doneCount, consecutiveConnErrors,
                 results, aborted, sink, ret, ignored, rejected, unhandled,
                 cancelRequested, doneEvent>>

\* while (active.size >= CONCURRENCY) { if (signal?.aborted) break; await Promise.race(active) }
WhileStep ==
  /\ pc = "while"
  /\ IF WindowFull(active) /\ ~SignalAborted
       THEN pc' = "race" /\ i' = i
       ELSE pc' = "for" /\ i' = i + 1
  /\ UNCHANGED <<params, fetchVars, reqVars, active, admitted, launched, doneCount, consecutiveConnErrors,
                 results, aborted, sink, ret, ignored, rejected, unhandled,
                 cancelRequested, doneEvent>>

\* The fetch of sequence number j settles with outcome o: the body of the
\* promise p after "await fetchProcessData", then p.finally, then the
\* reaction of the suspended controller.
Complete(j, o) ==
  /\ pc \in {"race", "drain", "returned", "thrown"} \/ SignalAborted
  /\ j \in active
  /\ o \in (IF SignalAborted THEN origin[j] \cup {Cancelled} ELSE origin[j])
  /\ LET data == fetchProcessData(o)
         skip == SettleIgnored
         conn == ~skip /\ IsConnError(data)
         c1 == IF skip THEN consecutiveConnErrors
                       ELSE NextCounter(data, consecutiveConnErrors)
         d1 == IF skip THEN doneCount ELSE doneCount + 1
         trips == conn /\ CircuitTrips(c1)
     IN /\ ret' = [ret EXCEPT ![j] = o]
        /\ ignored' = IF skip THEN ignored \cup {j} ELSE ignored
        /\ consecutiveConnErrors' = c1
        /\ doneCount' = d1
        /\ sink' = IF ~skip /\ Reports(data)
                     THEN Append(sink, <<d1, total, conn>>) ELSE sink
        /\ results' = IF skip \/ conn THEN results
                      ELSE [results EXCEPT ![j] = @ + Pushed(data)]
        /\ aborted' = IF trips /\ AbortsOnOutage THEN TRUE ELSE aborted
        /\ rejected' = IF trips THEN rejected \cup {j} ELSE rejected
        /\ unhandled' = IF trips THEN unhandled \cup Unobserved(j) ELSE unhandled
        /\ active' = active \ {j}
        /\ pc' = AfterSettle(pc, trips, active \ {j})
  /\ UNCHANGED <<params, fetchVars, reqVars, i, admitted, launched, cancelRequested, doneEvent>>

\* controller.abort() from outside the run (client disconnect, /api/cancel)
Abort ==
  /\ hasController
  /\ pc \in {"race", "drain"}
  /\ ~aborted
  /\ aborted' = TRUE
  /\ cancelRequested' = TRUE
  /\ UNCHANGED <<params, fetchVars, reqVars, i, pc, active, admitted, launched, doneCount,
                 consecutiveConnErrors, results, sink, ret, ignored, rejected, unhandled,
                 doneEvent>>

\* ------------------------------------------------ GET /api/process/batch
\* Math.round((done / total) * 100), for done >= 0 and total > 0
Percent(done, t) == (200 * done + t) \div (2 * t)

\* the onProgress callback of the endpoint: the event it sends for one
\* invocation <<done, total, connectionError>>
ProgressEvent(inv) ==
  IF inv[3] THEN [event |-> "warn", percent |-> 0]
  ELSE [event |-> "progress", percent |-> Percent(inv[1], inv[2])]

RECURSIVE SumOver(_, _)
SumOver(f, S) ==
  IF S = {} THEN 0
  ELSE LET x == CHOOSE y \in S : TRUE IN f[x] + SumOver(f, S \ {x})

RecordCount == SumOver(results, start..end)

\* catch (err) of the endpoint: the 'done' event for each thrown error
CatchBranch(err) ==
  CASE err = "PREFEITURA_OFFLINE" -> "outage"
    [] err = "AbortError" -> "cancelled"
    [] OTHER -> "error"

\* The 'done' event sent once fetchBatchProcesses has returned or thrown.
\* kept: records left by the department filter; exportOk: exportToExcel
\* did not throw.
DoneFor(p, kept, exportOk) ==
  CASE p = "thrown" -> CatchBranch("PREFEITURA_OFFLINE")
    [] p = "returned" /\ kept = 0 -> "empty"
    [] p = "returned" /\ kept > 0 /\ exportOk -> "success"
    [] OTHER -> CatchBranch("ExportFailure")

Respond ==
  /\ hasController    \* the endpoint always passes its AbortController
  /\ pc \in {"returned", "thrown"}
  /\ doneEvent = "none"
  /\ \E kept \in {0, RecordCount}, exportOk \in BOOLEAN :
       doneEvent' = DoneFor(pc, kept, exportOk)
  /\ UNCHANGED <<params, fetchVars, reqVars, i, pc, active, admitted, launched, doneCount,
                 consecutiveConnErrors, results, aborted, sink, ret, ignored,
                 rejected, unhandled, cancelRequested>>

Next ==
  \/ ForStep
  \/ ForExit
  \/ WhileStep
  \/ \E j \in start..end, o \in AllOutcomes : Complete(j, o)
  \/ Abort
  \/ Respond

Spec == Init /\ [][Next]_vars

\* The [1, 10] scenario, in which nobody cancels.
NextE2E ==
  \/ ForStep
  \/ ForExit
  \/ WhileStep
  \/ \E j \in start..end, o \in AllOutcomes : Complete(j, o)
  \/ Respond

SpecE2E == InitTen /\ [][NextE2E]_vars

SpecIds == InitIds /\ [][Next]_vars

\* The run under the scheduling of the event loop: a controller that can
\* continue does continue (its steps between two awaits are microtasks),
\* and every fetch in flight settles (each request has its own timeout).
\* Nothing obliges anyone to cancel or the endpoint to answer.
Fairness ==
  /\ WF_vars(ForStep)
  /\ WF_vars(ForExit)
  /\ WF_vars(WhileStep)
  /\ \A j \in 1..MaxLiveEnd : WF_vars(\E o \in AllOutcomes : Complete(j, o))

\* ranges [1, end] long enough to fill the scaled-down window and then
\* meet three connection errors; every fetch answers with records or with a
\* connection error
InitLive ==
  /\ prefix = <<"0", "1", "8">>
  /\ year = <<"2", "0", "2", "5">>
  /\ start = 1
  /\ end \in 1..MaxLiveEnd
  /\ limit \in {SmallLimit, CONCURRENCY}
  /\ hasController \in BOOLEAN
  /\ origin = [id \in start..end |-> {Success(RowsOf(id)), ConnectionError}]
  /\ InitRun

SpecLive == InitLive /\ [][Next]_vars /\ Fairness

\* The run as the batch endpoint starts it, always with its controller;
\* the handler continues once fetchBatchProcesses has settled.
InitStream == InitLive /\ hasController = TRUE

SpecStream == InitStream /\ [][Next]_vars /\ Fairness /\ WF_vars(Respond)

\* a request to the batch endpoint and the run it starts
NextReq ==
  \/ Receive
  \/ ForStep
  \/ ForExit
  \/ WhileStep
  \/ \E j \in start..end, o \in AllOutcomes : Complete(j, o)
  \/ Abort
  \/ Respond

SpecReq == InitReq /\ [][NextReq]_vars

\* ------------------------------------------------------------- claims

Terminated == pc \in {"returned", "thrown"}
CircuitOpened == rejected # {}

\* C1: once the consecutive-connection-error counter has reached the
\* threshold (a fetch promise has thrown PREFEITURA_OFFLINE), the run never
\* returns a record sequence normally; it ends by throwing.
C1_OutageNeverReturns == CircuitOpened => pc # "returned"

\* C2: the number of fetches in flight never exceeds the window size.
C2_WindowBound == Cardinality(active) <= limit

C2_Witness == pc = "race" /\ Cardinality(active) = limit /\ i < end

\* C3: once the signal is aborted or the circuit has opened, no further
\* sequence number is admitted (fetchProcessData is not called again).
C3_NoAdmissionAfterStop ==
  [][(aborted \/ CircuitOpened) => admitted' = admitted]_vars

C3_Witness == aborted /\ pc = "for" /\ i <= end /\ active # {}

\* number of trailing calls of the sink that carried the warning flag
RECURSIVE TrailingWarns(_)
TrailingWarns(q) ==
  IF q = <<>> THEN 0
  ELSE IF q[Len(q)][3] THEN 1 + TrailingWarns(SubSeq(q, 1, Len(q) - 1)) ELSE 0

WarnCount(q) == Cardinality({k \in 1..Len(q) : q[k][3]})

ThreeInARow(q) ==
  \E k \in 1..Len(q) :
    /\ k + MAX_CONSECUTIVE_CONN_ERRORS - 1 <= Len(q)
    /\ \A m \in k..(k + MAX_CONSECUTIVE_CONN_ERRORS - 1) : q[m][3]

\* the fetch of j settles in this step and is not ignored
Processed(j) == ret[j] = NoOutcome /\ ret'[j] # NoOutcome /\ j \notin ignored'

C4_Counter ==
  /\ consecutiveConnErrors = TrailingWarns(sink)
  /\ CircuitOpened <=> ThreeInARow(sink)
  /\ pc = "thrown" => ThreeInARow(sink)

C4_Step ==
  \A j \in start..end :
    Processed(j) =>
      /\ sink'[Len(sink')][3] = (ret'[j].kind = "ConnectionError")
      /\ ret'[j].kind \in {"Success", "EmptyResult", "Unexpected"}
           => consecutiveConnErrors' = 0
      /\ ret'[j].kind = "ConnectionError"
           => consecutiveConnErrors' = consecutiveConnErrors + 1

\* C4: the counter is the number of connection errors processed since the
\* last other outcome (every Success, EmptyResult or Unexpected resets it), the
\* circuit opens exactly when three connection errors were processed in a
\* row, and a run without three in a row never ends by throwing.
C4_ConsecutiveErrors == []C4_Counter /\ [][C4_Step]_vars

C4_Witness ==
  /\ pc = "returned"
  /\ ~CircuitOpened
  /\ ~aborted
  /\ WarnCount(sink) >= MAX_CONSECUTIVE_CONN_ERRORS

\* C5: a run that returns without outage and without cancellation has
\* invoked the progress sink exactly end - start + 1 times.
C5_ProgressCount ==
  (pc = "returned" /\ ~CircuitOpened /\ ~aborted) => Len(sink) = end - start + 1

C5_Witness ==
  /\ pc = "returned"
  /\ ~CircuitOpened
  /\ ~aborted
  /\ limit = SmallLimit
  /\ end - start + 1 > limit
  /\ WarnCount(sink) > 0
  /\ \E j \in start..end : ret[j].kind = "Unexpected"

RangeOf(q) == {q[k] : k \in 1..Len(q)}

\* C6: in the [1, 10] scenario where 3, 4 and 5 are processed as three
\* consecutive connection errors, 5 last, the run ends by throwing after the
\* callback of 5, none of 6..10 was admitted, and the accumulated records
\* come only from identifiers processed before the break.
C6_Scenario ==
  (Terminated /\ rejected = {5}) =>
    /\ pc = "thrown"
    /\ sink # <<>> /\ sink[Len(sink)][3]
    /\ RangeOf(admitted) \cap (6..10) = {}
    /\ \A j \in start..end : results[j] > 0 => j \notin ignored

\* C7: once cancellation has been triggered, the settlement of a fetch
\* changes neither the completed count, nor the error counter, nor the
\* accumulated records, and does not invoke the progress sink.
C7_CancelledIgnored ==
  [][(aborted /\ \E j \in start..end : ret[j] = NoOutcome /\ ret'[j] # NoOutcome)
       => UNCHANGED <<doneCount, consecutiveConnErrors, results, sink>>]_vars

C7_Witness ==
  /\ cancelRequested
  /\ \E j \in ignored : ret[j].kind = "Success"
  /\ \E j \in ignored : ret[j].kind = "ConnectionError"
  /\ \E j \in ignored : ret[j].kind = "Cancelled"

\* C8: the 'done' event tells the three terminal outcomes apart: a
\* cancelled run is reported as cancelled, an outage as outage, and
\* success or empty only for a run that completed its range.
C8_DistinctOutcomes ==
  doneEvent # "none" =>
    /\ (cancelRequested /\ ~CircuitOpened) => doneEvent = "cancelled"
    /\ CircuitOpened => doneEvent = "outage"
    /\ doneEvent \in {"success", "empty"} => (~cancelRequested /\ ~CircuitOpened)

\* C9: a run that returns without outage and without cancellation holds
\* exactly the records of the Success outcomes, each once; for range [1, 5]
\* with one record each that is 5 records and the last progress call
\* reports completedCount = totalCount.
C9_ExactRecords ==
  (pc = "returned" /\ ~CircuitOpened /\ ~aborted) =>
    /\ \A j \in start..end :
         results[j] = IF ret[j].kind = "Success" THEN ret[j].n ELSE 0
    /\ (\A j \in start..end : ret[j].kind # "Success") => RecordCount = 0
    /\ (limit = CONCURRENCY /\ start = 1 /\ end = 5
          /\ \A j \in 1..5 : ret[j] = Success(1))
         => (RecordCount = 5 /\ sink[Len(sink)] = <<5, 5, FALSE>>)

C9_Witness ==
  /\ pc = "returned"
  /\ ~aborted
  /\ limit = CONCURRENCY /\ start = 1 /\ end = 5
  /\ \A j \in 1..5 : ret[j] = Success(1)

\* C10: the controller is never suspended while it could admit: whenever
\* it waits for a fetch, either the window is full, or no identifier of the
\* range remains, or cancellation or circuit-open has been observed.
C10_SlidingWindow ==
  (pc \in {"race", "drain"} /\ ~aborted /\ ~CircuitOpened
     /\ start + Len(admitted) <= end)
    => Cardinality(active) >= limit

C10_Witness ==
  /\ pc = "race"
  /\ limit > 1
  /\ Len(admitted) = limit + 1
  /\ Cardinality(active) = limit
  /\ \E j \in active : j < start + Len(admitted) - limit

\* ---- reading an identifier back
IndexOf(s, c) ==
  IF \E k \in 1..Len(s) : s[k] = c
    THEN CHOOSE k \in 1..Len(s) : s[k] = c /\ \A m \in 1..(k - 1) : s[m] # c
    ELSE 0

RECURSIVE Split(_, _)
Split(s, c) ==
  LET k == IndexOf(s, c)
  IN IF k = 0 THEN <<s>>
     ELSE <<SubSeq(s, 1, k - 1)>> \o Split(SubSeq(s, k + 1, Len(s)), c)

\* t is s with zeros put in front up to a width of at least n
ZeroPadded(t, s, n) ==
  /\ Len(t) = IF Len(s) > n THEN Len(s) ELSE n
  /\ SubSeq(t, Len(t) - Len(s) + 1, Len(t)) = s
  /\ \A k \in 1..(Len(t) - Len(s)) : t[k] = "0"

\* C11: the admitted sequence numbers are start, start + 1, ... in this
\* order, each once and none outside [start, end]; a run that returns without
\* outage and without cancellation has admitted all of start..end; and each
\* identifier passed to fetchProcessData reads prefix zero-padded to 3 /
\* sequence number zero-padded to 6 / year.
C11_AdmittedRange ==
  /\ Len(launched) = Len(admitted)
  /\ \A k \in 1..Len(admitted) :
       /\ admitted[k] = start + k - 1
       /\ admitted[k] \in start..end
       /\ LET seg == Split(launched[k], "/")
          IN /\ Len(seg) = 3
             /\ ZeroPadded(seg[1], prefix, 3)
             /\ Len(seg[2]) = 6 /\ IsDigits(seg[2])
             /\ StringToNat(seg[2]) = admitted[k]
             /\ seg[3] = year
  /\ (pc = "returned" /\ ~CircuitOpened /\ ~aborted)
       => Len(admitted) = end - start + 1

C11_Witness ==
  /\ pc = "returned" /\ ~CircuitOpened /\ ~aborted
  /\ Len(prefix) < 3
  /\ limit = SmallLimit
  /\ Len(admitted) > limit
  /\ admitted[1] < 10 /\ admitted[Len(admitted)] >= 10

\* C12: an identifier without separators is canonicalized to three
\* slash-separated segments of three digits, six digits and the year; an
\* identifier that already has a separator is used unchanged.
C12_Canonical ==
  out.fn = "fetch" =>
    IF Includes(call.numero, "/") THEN out.numero = call.numero
    ELSE LET seg == Split(out.numero, "/")
         IN /\ Len(seg) = 3
            /\ Len(seg[1]) = 3 /\ IsDigits(seg[1])
            /\ Len(seg[2]) = 6 /\ IsDigits(seg[2])
            /\ Len(seg[3]) > 0 /\ IsDigits(seg[3])
            /\ seg[1] \o seg[2] \o seg[3] = call.numero

\* the call got a parsed answer / the call met an error
HtmlAnswered ==
  out.fn = "fetch" /\ call.session.kind = "ok" /\ call.query.kind = "html"

Failed ==
  /\ out.fn = "fetch"
  /\ (call.session.kind = "error" \/ call.query.kind \in {"error", "garbage"})

RaisedErr ==
  IF call.session.kind = "error" THEN call.session.err ELSE call.query.err

\* rec carries the header and the cells 1..6 of row r of the table
FromRow(rec, r) ==
  /\ rec.header = out.numero
  /\ \A k \in 1..6 :
       rec.mov[k] = IF k < Len(call.query.resp.rows[r]) THEN Cell(r, k) ELSE <<>>

\* C13: with the results table present and n rows, firstOnly gives one
\* record built from the last row, otherwise one record per row in table
\* order; n = 0 gives a single header-only record in both modes; with the
\* table absent the call returns the empty outcome and not an error.
C13_Parse ==
  HtmlAnswered =>
    LET resp == call.query.resp
        n == Len(resp.rows)
        v == out.res.value
    IN /\ ~out.res.thrown
       /\ ~resp.table => (v = Null /\ out.res.branch = "no-table")
       /\ (resp.table /\ n = 0) =>
            /\ v.tag = "array" /\ Len(v.recs) = 1
            /\ v.recs[1].header = out.numero /\ v.recs[1].mov = <<>>
       /\ (resp.table /\ n > 0 /\ call.firstOnly) =>
            /\ v.tag = "array" /\ Len(v.recs) = 1
            /\ FromRow(v.recs[1], n)
       /\ (resp.table /\ n > 0 /\ ~call.firstOnly) =>
            /\ v.tag = "array" /\ Len(v.recs) = n
            /\ \A r \in 1..n : FromRow(v.recs[r], r)

C13_Witness ==
  /\ HtmlAnswered
  /\ call.firstOnly
  /\ call.query.resp.table
  /\ Len(call.query.resp.rows) = 2
  /\ Len(call.query.resp.rows[1]) = 3
  /\ Len(call.query.resp.rows[2]) = 7
  /\ Len(out.res.value.recs) = 1

\* the class a result stands for: the branch of the catch block taken
Class(res) ==
  CASE res.branch = "cancelled" -> "Cancelled"
    [] res.branch = "connection" -> "ConnectionError"
    [] res.branch = "error" -> "Unexpected"
    [] OTHER -> "none"

ConnectivityCauses == {"timeout", "refused", "notfound"}

\* C14: every failure gets exactly one class; timeouts (codes ECONNABORTED,
\* ETIMEDOUT) and refused / host-not-found failures are ConnectionError and
\* never Cancelled; Cancelled only for a failure caused by the cancellation
\* signal; every other failure is Unexpected.
C14_Classification ==
  Failed =>
    LET e == RaisedErr
        cls == Class(out.res)
    IN /\ cls \in {"Cancelled", "ConnectionError", "Unexpected"}
       /\ (e.cause \in ConnectivityCauses \/ e.code \in {"ECONNABORTED", "ETIMEDOUT"})
            => cls = "ConnectionError"
       /\ cls = "Cancelled" => e.cause = "signal"
       /\ e.cause \notin (ConnectivityCauses \cup {"signal"}) => cls = "Unexpected"

C14_Witness ==
  /\ Failed
  /\ call.session.kind = "ok"
  /\ RaisedErr.cause = "notfound"
  /\ Class(out.res) = "ConnectionError"

\* C15: the call never throws: a failure at the session step, at the query
\* step or while parsing is returned as a value, the connection-error
\* marker for connectivity failures and null for cancellation and for
\* unexpected errors.
C15_NeverThrows ==
  out.fn = "fetch" =>
    /\ ~out.res.thrown
    /\ out.res.value.tag \in {"null", "error", "array"}
    /\ Failed =>
         out.res.value = IF RaisedErr.cause \in ConnectivityCauses
                           THEN Marker(out.numero) ELSE Null

C15_Witness ==
  /\ Failed
  /\ call.session.kind = "ok"
  /\ call.query.kind = "garbage"
  /\ ~out.res.thrown
  /\ out.res.value = Null

\* what the claim calls a malformed request
BadBound(p) == p.present /\ (Number(p).nan \/ Number(p).val < 0)
BadPrefix(p) == p.present /\ ~(IsDigits(p.text) /\ Len(p.text) \in 1..3)
BadYear(p) == p.present /\ ~(IsDigits(p.text) /\ Len(p.text) = 4)

Reversed(q) ==
  /\ ~BadBound(q.start) /\ ~BadBound(q.end)
  /\ NumberOr(q.start, DefaultStart) > NumberOr(q.end, DefaultEnd)

Malformed(q) ==
  \/ BadBound(q.start) \/ BadBound(q.end)
  \/ BadPrefix(q.prefix) \/ BadYear(q.year)
  \/ Reversed(q)

\* C16: a batch request with a malformed range or identifier is rejected
\* with a validation error before any network activity: it is never
\* answered with the event stream and no fetch is admitted for it.
C16_Validated ==
  (query # NoQuery /\ Malformed(query)) =>
    (status \in {"none", "400"} /\ admitted = <<>>)

\* C17: from the moment the circuit opens the accumulation is frozen: no
\* later step changes the accumulated records, the completed-attempt count
\* or the error counter.
C17_Frozen ==
  [][CircuitOpened => UNCHANGED <<results, doneCount, consecutiveConnErrors>>]_vars

\* C18: the circuit is one-shot: it is open only with the counter at the
\* threshold, and once the counter has reached the threshold no later step
\* resets or lowers it, with or without a controller.
C18_OneShot ==
  /\ [](CircuitOpened => CircuitTrips(consecutiveConnErrors))
  /\ [][CircuitTrips(consecutiveConnErrors)
         => consecutiveConnErrors' >= consecutiveConnErrors]_vars

\* C19: the sink is invoked at most once per admitted identifier, with
\* completed counts 1, 2, 3, ... that never exceed total = end - start + 1,
\* so every percent sent is in 0..100; and an invocation carries the
\* connectivity-warning flag exactly when the outcome it reports is a
\* ConnectionError.
C19_Sink ==
  /\ Len(sink) <= Len(admitted)
  /\ Len(sink) = Cardinality({j \in start..end : ret[j] # NoOutcome /\ j \notin ignored})
  /\ \A k \in 1..Len(sink) :
       /\ sink[k][1] = k
       /\ sink[k][2] = end - start + 1
       /\ sink[k][1] <= sink[k][2]
       /\ ProgressEvent(sink[k]).percent \in 0..100
       /\ ProgressEvent(sink[k]).event = "warn" <=> sink[k][3]

C19_Step ==
  sink' # sink =>
    \E j \in start..end :
      /\ Processed(j)
      /\ sink' = Append(sink, <<Len(sink) + 1, end - start + 1,
                                ret'[j] = ConnectionError>>)

C19_Progress == []C19_Sink /\ [][C19_Step]_vars

C19_Witness ==
  /\ Len(sink) = end - start + 1
  /\ Len(sink) >= 3
  /\ \E k \in 1..Len(sink) : sink[k][3]
  /\ ~sink[Len(sink)][3]
  /\ ProgressEvent(sink[Len(sink)]).percent = 100

\* C20 as stated: whenever the run has ended, by returning or by failing,
\* no admitted fetch is still in flight.
C20_DrainedAtEnd == Terminated => active = {}

\* C20 amended: when the run returns normally (normal completion, after
\* cancellation, or after an outage met while draining) every admitted
\* fetch has settled and the in-flight set is empty; a run that fails with
\* PREFEITURA_OFFLINE does not wait for the fetches still in flight.
C20_DrainedOnReturn ==
  pc = "returned" =>
    /\ active = {}
    /\ \A k \in 1..Len(admitted) : ret[admitted[k]] # NoOutcome

C20_Witness ==
  /\ pc = "returned"
  /\ cancelRequested
  /\ ignored # {}
  /\ Len(admitted) >= 2
  /\ Len(admitted) < end - start + 1

\* C21: provided every admitted fetch settles, every run terminates, by
\* returning or by failing, whatever the range, the order of completions
\* and the moment of cancellation or circuit-open; and the controller never
\* waits on an empty in-flight set.
C21_Terminates ==
  /\ <>Terminated
  /\ [](pc \in {"race", "drain"} => active # {})

C21_Witness ==
  /\ Terminated
  /\ limit = SmallLimit
  /\ Len(admitted) = end - start + 1
  /\ Len(admitted) > limit
  /\ active = {}

\* C22: after the run has terminated, by returning or by failing, no step
\* invokes the progress sink or changes the counters or the accumulated
\* records, with or without a controller.
C22_QuietAfterEnd ==
  [][Terminated
       => UNCHANGED <<sink, doneCount, consecutiveConnErrors, results>>]_vars

\* C23: every rejection that the outage signal produces inside the run is
\* observed by a handler: neither a rejected fetch promise nor the promise
\* derived from it by p.finally is left as an unhandled rejection.
C23_AllObserved == unhandled = {}

\* the requests whose controller the registry holds
Registered == {activeControllers[k] : k \in DOMAIN activeControllers}

C24_Registry ==
  /\ \A r \in Registered : batches[r].phase = "running"
  /\ \A r \in Reqs :
       (batches[r].phase = "ended" \/ batches[r].closed \/ batches[r].aborted)
         => r \notin Registered
  /\ (\A r \in Reqs : batches[r].phase # "running") => activeControllers = EmptyMap

C24_Step ==
  /\ \A r \in Reqs :
       (batches[r].phase = "idle" /\ batches'[r].phase = "running")
         => r \in Registered'
  /\ (\A r \in Reqs : batches'[r].phase = batches[r].phase
                         /\ batches'[r].closed = batches[r].closed)
       => /\ activeControllers' = EmptyMap
          /\ \A r \in Registered : batches'[r].aborted

\* C24: a batch's controller is registered when the batch starts and is
\* absent once the batch has ended, been cancelled or lost its client, so
\* the registry holds only controllers of running batches and is empty when
\* none runs; cancel-all aborts every registered controller and leaves the
\* registry empty, under any interleaving of requests, disconnects and
\* cancel calls.
C24_BoundedLifecycle == []C24_Registry /\ [][C24_Step]_vars

C24_Witness ==
  /\ \A r \in Reqs : batches[r].phase = "running" /\ batches[r].aborted
  /\ \E r \in Reqs : ~batches[r].closed
  /\ activeControllers = EmptyMap

\* C25: every batch request that got past the prefix/year check gets
\* exactly one done event, whatever the outcome, and nothing follows it: no
\* progress or warning event is sent after the done event.
C25_OneDoneLast ==
  /\ <>(doneEvent # "none")
  /\ [][doneEvent # "none" => (doneEvent' = doneEvent /\ sink' = sink)]_vars

C25_Witness ==
  /\ doneEvent = "outage"
  /\ active = {}
  /\ \E j \in ignored : ret[j] = Success(RowsOf(j))
  /\ Len(sink) >= MAX_CONSECUTIVE_CONN_ERRORS

====
